---- MODULE Spec2Model ----
(***************************************************************************)
(* GemKey virtual keyboard: the touch-gesture capture pipeline of          *)
(* components/VirtualKeyboard.tsx, the point recycling pool of             *)
(* services/memoryOptimizer.ts, the swipe / trace callbacks of App.tsx and *)
(* the decoder of services/geminiService.ts.                               *)
(*                                                                         *)
(* Strings are sequences of one-character strings.  Point objects live in  *)
(* a heap `pts` indexed by object identity; the pool and the gesture path  *)
(* hold identities, as the JavaScript arrays hold references.              *)
(***************************************************************************)
EXTENDS Integers, Sequences, FiniteSets, TLC

VARIABLES
    mounted,              \* the App / VirtualKeyboard tree is mounted
    genAI,                \* geminiService.genAI is configured (API_KEY present)
    settings,             \* App: KeyboardSettings fields read by the pipeline
    isButtonEditMode,     \* App state
    isResizeMode,         \* App state
    text,                 \* App: the text buffer
    isLoading,            \* App state
    isKeyboardVisible,    \* App state
    pending,              \* decipherSwipe calls in flight (handleTraceEnd suspended at await)
    touches,              \* number of fingers currently on the keyboard
    touchStart,           \* VirtualKeyboard ref
    swipePath,            \* VirtualKeyboard ref: the key-crossing string
    tracePoints,          \* VirtualKeyboard ref: the gesture path (point identities)
    initialPinchDistance, \* VirtualKeyboard ref
    canvasInk,            \* the overlay canvas currently shows a polyline
    pool,                 \* PointPool.pool (point identities, top of stack last)
    pts,                  \* heap: identity -> coordinates, or NoPoint when not allocated
    hits,                 \* observation: key values hit by the touch-move samples of the trace
    translationDeps,      \* App: dependencies seen by the last run of the real-time translation effect
    translationTimer,     \* App: the pending debounce timer of that effect (the text it captured)
    rewrites,             \* App: rewrite requests in flight (translation, grammar fix, tone change)
    predictorDeps,        \* App: dependencies seen by the last run of the predictor effect
    lookups,              \* App: fetchPredictions calls suspended at getPersonalizedPredictions
    predictions,          \* App state: the predictions on display
    syncDeps,             \* App: dependencies seen by the last run of the cloud sync effect
    syncInterval,         \* cloudSyncService.syncInterval (the settings its callback captured)
    uploads,              \* uploadToDrive calls in flight
    cloudData,            \* localStorage[SYNC_STORAGE_KEY].settings
    isEnabled,            \* AutoSizeManager.isEnabled
    callback,             \* AutoSizeManager.callback
    lastSuggestion,       \* AutoSizeManager.lastSuggestion
    timeCheckInterval,    \* AutoSizeManager.timeCheckInterval is running
    keyTimestamps,        \* AutoSizeManager.keyTimestamps
    screen,               \* <<window.innerWidth, window.innerHeight>>
    hour,                 \* new Date().getHours()
    ev                    \* observation of the last handler that ran

vars == <<mounted, genAI, settings, isButtonEditMode, isResizeMode, text, isLoading,
          isKeyboardVisible, pending, touches, touchStart, swipePath, tracePoints,
          initialPinchDistance, canvasInk, pool, pts, hits, translationDeps, translationTimer,
          rewrites, predictorDeps, lookups, predictions, syncDeps, syncInterval, uploads,
          cloudData, isEnabled, callback, lastSuggestion, timeCheckInterval, keyTimestamps,
          screen, hour, ev>>

appVars == <<settings, isButtonEditMode, isResizeMode, text, isLoading, isKeyboardVisible, pending>>
gestureVars == <<touches, touchStart, swipePath, tracePoints, initialPinchDistance, canvasInk,
                 hits>>
poolVars == <<pool, pts>>
rewriteVars == <<translationDeps, translationTimer, rewrites>>
predictVars == <<predictorDeps, lookups, predictions>>
syncVars == <<syncDeps, syncInterval, uploads, cloudData>>
autoSizeVars == <<isEnabled, callback, lastSuggestion, timeCheckInterval, keyTimestamps,
                  screen, hour>>
serviceVars == <<rewriteVars, predictVars, syncVars, autoSizeVars>>

-----------------------------------------------------------------------------
(* Bounds *)

\* PointPool.maxPoolSize is 500 in the source; the model keeps the code's
\* comparisons and scales the capacity so that a full pool is reachable.
maxPoolSize == 2
\* longest gesture path explored (touch-start point plus touch-move samples)
MaxPath == 4
\* longest text buffer explored
MaxText == 3
\* decoder calls in flight at once
MaxPending == 1
\* fingers on the keyboard at once
MaxTouches == 1

\* the fixed swipe threshold of handleTouchEnd, in CSS pixels
SwipeThreshold == 50

\* a JavaScript null key value; null coordinates and unallocated heap cells
\* are the empty tuple, set ones the pair <<x, y>>
NULL == "null"
NoTouch == <<>>
NoPoint == <<>>
Objs == 1..(MaxPath + maxPoolSize)

\* touch coordinates: where a finger goes down, where samples are taken and
\* where it is lifted.  Against the start at (60, 60) the lift positions give
\* a tap, displacements at the threshold and one pixel past it in every
\* direction, and the ties |dx| = |dy|.
StartPos == {<<60, 60>>}
MovePos == {<<111, 60>>}
EndPos == {<<60, 60>>, <<110, 110>>, <<10, 10>>,
           <<111, 60>>, <<111, 110>>, <<9, 60>>, <<9, 10>>,
           <<60, 111>>, <<110, 111>>, <<60, 9>>,
           <<111, 111>>, <<111, 9>>, <<9, 111>>}

\* data-key-value of the keys under the finger; NULL when the element under
\* the finger carries no data-key-value attribute
Keys == {"h", "e"}
KeyHits == Keys \cup {NULL}

Languages == {"EN", "AR"}

-----------------------------------------------------------------------------
(* String helpers (JavaScript String methods over sequences of characters) *)

Min(a, b) == IF a < b THEN a ELSE b
Abs(n) == IF n < 0 THEN -n ELSE n

\* characters String.prototype.trim / trimEnd / \s treat as white space
WhiteSpace == {" ", "\n", "\t"}

endsWith(s, c) == Len(s) > 0 /\ s[Len(s)] = c
startsWith(s, c) == Len(s) > 0 /\ s[1] = c

RECURSIVE trimEnd(_)
trimEnd(s) == IF Len(s) > 0 /\ s[Len(s)] \in WhiteSpace
              THEN trimEnd(SubSeq(s, 1, Len(s) - 1)) ELSE s

RECURSIVE trimStart(_)
trimStart(s) == IF Len(s) > 0 /\ s[1] \in WhiteSpace
                THEN trimStart(SubSeq(s, 2, Len(s))) ELSE s

trim(s) == trimStart(trimEnd(s))

\* s.lastIndexOf(c), 1-based; 0 stands for JavaScript's -1
lastIndexOf(s, c) ==
    LET I == {i \in 1..Len(s) : s[i] = c}
    IN  IF I = {} THEN 0 ELSE CHOOSE i \in I : \A j \in I : j <= i

\* s.split(c)[0]
splitFirst(s, c) ==
    LET I == {i \in 1..Len(s) : s[i] = c}
    IN  IF I = {} THEN s
        ELSE SubSeq(s, 1, (CHOOSE i \in I : \A j \in I : i <= j) - 1)

\* [...new Set(s.split(''))].join('') : first occurrences, in order
RECURSIVE dedupe(_)
dedupe(s) ==
    IF s = <<>> THEN <<>>
    ELSE LET r == dedupe(SubSeq(s, 1, Len(s) - 1))
             c == s[Len(s)]
         IN  IF \E i \in 1..Len(r) : r[i] = c THEN r ELSE Append(r, c)

-----------------------------------------------------------------------------
(* PointPool (services/memoryOptimizer.ts) *)

Live(pl, path) == {pl[i] : i \in 1..Len(pl)} \cup {path[i] : i \in 1..Len(path)}

\* `{ x, y }` : a new object, distinct from every object still referenced
NewPoint(hp) == CHOOSE p \in Objs : hp[p] = NoPoint /\ \A q \in Objs : hp[q] = NoPoint => p <= q

\* objects no array references any more are reclaimed by the garbage collector
Collect(hp, pl, path) == [p \in Objs |-> IF p \in Live(pl, path) THEN hp[p] ELSE NoPoint]

obtainFresh(pl, hp, x, y) ==
    LET p == NewPoint(hp)
    IN  [p |-> p, pool |-> pl, pts |-> [hp EXCEPT ![p] = <<x, y>>]]

obtainKeep(pl, hp, x, y) ==
    IF Len(pl) > 0
    THEN LET p == pl[Len(pl)]
         IN  [p |-> p, pool |-> pl, pts |-> [hp EXCEPT ![p] = <<x, y>>]]
    ELSE LET p == NewPoint(hp)
         IN  [p |-> p, pool |-> pl, pts |-> [hp EXCEPT ![p] = <<x, y>>]]

obtainStale(pl, hp, x, y) ==
    IF Len(pl) > 0
    THEN LET p == pl[Len(pl)]
         IN  [p |-> p, pool |-> SubSeq(pl, 1, Len(pl) - 1), pts |-> hp]
    ELSE LET p == NewPoint(hp)
         IN  [p |-> p, pool |-> pl, pts |-> [hp EXCEPT ![p] = <<x, y>>]]

obtain(pl, hp, x, y) ==
    IF Len(pl) > 0
    THEN LET p == pl[Len(pl)]
         IN  [p |-> p, pool |-> SubSeq(pl, 1, Len(pl) - 1),
              pts |-> [hp EXCEPT ![p] = <<x, y>>]]
    ELSE LET p == NewPoint(hp)
         IN  [p |-> p, pool |-> pl, pts |-> [hp EXCEPT ![p] = <<x, y>>]]

recycleAll(pl, points) == pl \o points

recycleNone(pl, points) == pl

recycleEvict(pl, points) ==
    IF Len(pl) < maxPoolSize
    THEN LET count == Min(Len(points), maxPoolSize - Len(pl))
         IN  pl \o SubSeq(points, 1, count)
    ELSE IF points = <<>> THEN pl
    ELSE SubSeq(pl, 1, Len(pl) - 1) \o <<points[1]>>

recycle(pl, points) ==
    IF Len(pl) < maxPoolSize
    THEN LET count == Min(Len(points), maxPoolSize - Len(pl))
         IN  pl \o SubSeq(points, 1, count)
    ELSE pl

cleanup == <<>>

-----------------------------------------------------------------------------
(* App.tsx: text-buffer handlers *)

\* handleSwipeLeft's state updater
handleSwipeLeft(prev) ==
    LET trimmed == trimEnd(prev)
        lastSpaceIndex == lastIndexOf(trimmed, " ")
    IN  IF lastSpaceIndex = 0 THEN <<>>
        ELSE SubSeq(trimmed, 1, lastSpaceIndex - 1) \o <<" ">>

\* handleSwipeRight's state updater
handleSwipeRight(prev) == prev \o <<" ">>

\* the separator test of handleTraceEnd's state updater
needsSpace(prev, word) ==
    Len(prev) > 0 /\ ~endsWith(prev, " ") /\ ~startsWith(word, " ")

\* handleTraceEnd's state updater
traceAppendNoSpace(prev, word) ==
    prev \o (IF needsSpace(prev, word) THEN <<" ">> ELSE <<>>) \o word

traceAppend(prev, word) ==
    prev \o (IF needsSpace(prev, word) THEN <<" ">> ELSE <<>>) \o word \o <<" ">>

\* whether handleTraceEnd's closure informs the frequency learner
learns(s) == ~s.incognitoMode /\ ~s.encryptKeystrokes

-----------------------------------------------------------------------------
(* geminiService.decipherSwipe *)

\* what genAI.models.generateContent can do: throw, or answer with a text
Throw == [kind |-> "throw"]
ResponseTexts == {<<>>, <<"a">>, <<" ", "a", " ", "b">>}
Outcomes == {Throw} \cup {[kind |-> "text", text |-> t] : t \in ResponseTexts}

decipherSwipeEcho(path, outcome) ==
    IF ~genAI \/ trim(path) = <<>> THEN <<>>
    ELSE IF Len(path) < 3 THEN path
    ELSE IF outcome.kind = "throw" THEN path
    ELSE splitFirst(trim(outcome.text), " ")

\* decipherSwipe gets as far as the remote generateContent call
remoteCalled(path) == genAI /\ trim(path) # <<>> /\ Len(path) >= 3

decipherSwipe(path, outcome) ==
    IF ~genAI \/ trim(path) = <<>> THEN <<>>
    ELSE IF Len(path) < 3 THEN path
    ELSE IF outcome.kind = "throw" THEN dedupe(path)
    ELSE splitFirst(trim(outcome.text), " ")

-----------------------------------------------------------------------------
(* components/VirtualKeyboard.tsx: gesture handlers *)

dispatchInclusive(dx, dy, path) ==
    IF Abs(dx) >= SwipeThreshold \/ Abs(dy) >= SwipeThreshold
    THEN IF Abs(dx) > Abs(dy)
         THEN IF dx > 0 THEN <<"swipeRight">>
              ELSE IF dx < 0 THEN <<"swipeLeft">> ELSE <<>>
         ELSE IF dy > 0 THEN <<"swipeDown">> ELSE <<>>
    ELSE IF Len(path) > 2 THEN <<"traceEnd">> ELSE <<>>

dispatchRightAlso(dx, dy, path) ==
    IF Abs(dx) > SwipeThreshold \/ Abs(dy) > SwipeThreshold
    THEN IF Abs(dx) > Abs(dy)
         THEN IF dx > 0 THEN (IF Len(path) > 2 THEN <<"swipeRight", "traceEnd">>
                              ELSE <<"swipeRight">>)
              ELSE IF dx < 0 THEN <<"swipeLeft">> ELSE <<>>
         ELSE IF dy > 0 THEN <<"swipeDown">> ELSE <<>>
    ELSE IF Len(path) > 2 THEN <<"traceEnd">> ELSE <<>>

dispatchTraceFirst(dx, dy, path) ==
    IF Len(path) > 2 THEN <<"traceEnd">>
    ELSE IF Abs(dx) > SwipeThreshold \/ Abs(dy) > SwipeThreshold
    THEN IF Abs(dx) > Abs(dy)
         THEN IF dx > 0 THEN <<"swipeRight">>
              ELSE IF dx < 0 THEN <<"swipeLeft">> ELSE <<>>
         ELSE IF dy > 0 THEN <<"swipeDown">> ELSE <<>>
    ELSE <<>>

dispatchTieHorizontal(dx, dy, path) ==
    IF Abs(dx) > SwipeThreshold \/ Abs(dy) > SwipeThreshold
    THEN IF Abs(dx) >= Abs(dy)
         THEN IF dx > 0 THEN <<"swipeRight">>
              ELSE IF dx < 0 THEN <<"swipeLeft">> ELSE <<>>
         ELSE IF dy > 0 THEN <<"swipeDown">> ELSE <<>>
    ELSE IF Len(path) > 2 THEN <<"traceEnd">> ELSE <<>>

dispatchUpDecodes(dx, dy, path) ==
    IF Abs(dx) > SwipeThreshold \/ Abs(dy) > SwipeThreshold
    THEN IF Abs(dx) > Abs(dy)
         THEN IF dx > 0 THEN <<"swipeRight">>
              ELSE IF dx < 0 THEN <<"swipeLeft">> ELSE <<>>
         ELSE IF dy > 0 THEN <<"swipeDown">>
              ELSE IF Len(path) > 2 THEN <<"traceEnd">> ELSE <<>>
    ELSE IF Len(path) > 2 THEN <<"traceEnd">> ELSE <<>>

\* the swipe / trace dispatch of handleTouchEnd: the callbacks it invokes
dispatch(dx, dy, path) ==
    IF Abs(dx) > SwipeThreshold \/ Abs(dy) > SwipeThreshold
    THEN IF Abs(dx) > Abs(dy)
         THEN IF dx > 0 THEN <<"swipeRight">>
              ELSE IF dx < 0 THEN <<"swipeLeft">> ELSE <<>>
         ELSE IF dy > 0 THEN <<"swipeDown">> ELSE <<>>
    ELSE IF Len(path) > 2 THEN <<"traceEnd">> ELSE <<>>

crossKeyOnce(path, keyVal) ==
    IF keyVal # NULL /\ ~(\E i \in 1..Len(path) : path[i] = keyVal)
    THEN Append(path, keyVal) ELSE path

\* the key-crossing accumulation of handleTouchMove
crossKey(path, keyVal) ==
    IF keyVal # NULL /\ ~endsWith(path, keyVal) THEN Append(path, keyVal) ELSE path

decodeCallLeaky(path) ==
    [path |-> path,
     context |-> text,
     language |-> settings.language,
     learn |-> learns(settings)]

\* the request handleTraceEnd hands to decipherSwipe, with the settings its
\* closure keeps for the continuation
decodeCall(path) ==
    [path |-> path,
     context |-> IF settings.incognitoMode \/ settings.encryptKeystrokes THEN <<>> ELSE text,
     language |-> settings.language,
     learn |-> learns(settings)]

handleTouchStart(pos) ==
    /\ mounted
    /\ touches' = touches + 1
    /\ IF touches' = 2
       THEN \* Start Pinch
            /\ initialPinchDistance' = "dist"
            /\ UNCHANGED <<touchStart, swipePath, tracePoints, canvasInk, pool, pts, hits>>
            /\ ev' = [type |-> "touchStart", active |-> FALSE, pos |-> pos,
                      fingers |-> touches', leftover |-> 0]
       ELSE IF settings.traceTyping /\ ~isButtonEditMode /\ ~isResizeMode
       THEN LET pool1 == IF Len(tracePoints) > 0 THEN recycle(pool, tracePoints) ELSE pool
                o == obtain(pool1, Collect(pts, pool1, <<>>), pos[1], pos[2])
            IN  /\ touchStart' = pos
                /\ swipePath' = <<>>
                /\ tracePoints' = <<o.p>>
                /\ pool' = o.pool
                /\ pts' = Collect(o.pts, pool', tracePoints')
                /\ canvasInk' = FALSE
                /\ hits' = <<>>
                /\ ev' = [type |-> "touchStart", active |-> TRUE, pos |-> pos,
                          fingers |-> touches', leftover |-> Len(tracePoints)]
            /\ UNCHANGED initialPinchDistance
       ELSE /\ UNCHANGED <<touchStart, swipePath, tracePoints, initialPinchDistance,
                           canvasInk, pool, pts, hits>>
            /\ ev' = [type |-> "touchStart", active |-> FALSE, pos |-> pos,
                      fingers |-> touches', leftover |-> 0]
    /\ UNCHANGED <<mounted, genAI, serviceVars>>
    /\ UNCHANGED appVars

handleTouchMoveWrites(pos, keyVal) ==
    /\ mounted
    /\ touches >= 1
    /\ IF touches = 2 /\ initialPinchDistance # NULL
       THEN /\ UNCHANGED <<swipePath, tracePoints, pool, pts, hits, settings>>
            /\ ev' = [type |-> "touchMove", active |-> FALSE, pos |-> pos]
       ELSE IF settings.traceTyping /\ touchStart # NoTouch /\ ~isButtonEditMode
       THEN LET o == obtain(pool, pts, pos[1], pos[2])
            IN  /\ Len(tracePoints) < MaxPath
                /\ swipePath' = crossKey(swipePath, keyVal)
                /\ tracePoints' = Append(tracePoints, o.p)
                /\ pool' = o.pool
                /\ pts' = o.pts
                /\ hits' = IF keyVal # NULL THEN Append(hits, keyVal) ELSE hits
                /\ settings' = [settings EXCEPT !.language = "EN"]
                /\ ev' = [type |-> "touchMove", active |-> TRUE, pos |-> pos]
       ELSE /\ UNCHANGED <<swipePath, tracePoints, pool, pts, hits, settings>>
            /\ ev' = [type |-> "touchMove", active |-> FALSE, pos |-> pos]
    /\ UNCHANGED <<touches, touchStart, initialPinchDistance, canvasInk>>
    /\ UNCHANGED <<mounted, genAI, serviceVars>>
    /\ UNCHANGED <<isButtonEditMode, isResizeMode, text, isLoading, isKeyboardVisible, pending>>

handleTouchMove(pos, keyVal) ==
    /\ mounted
    /\ touches >= 1
    /\ IF touches = 2 /\ initialPinchDistance # NULL
       THEN \* pinch resize: onUpdateSize changes only the keyboard height
            /\ UNCHANGED <<swipePath, tracePoints, pool, pts, hits>>
            /\ ev' = [type |-> "touchMove", active |-> FALSE, pos |-> pos]
       ELSE IF settings.traceTyping /\ touchStart # NoTouch /\ ~isButtonEditMode
       THEN LET o == obtain(pool, pts, pos[1], pos[2])
            IN  /\ Len(tracePoints) < MaxPath
                /\ swipePath' = crossKey(swipePath, keyVal)
                /\ tracePoints' = Append(tracePoints, o.p)
                /\ pool' = o.pool
                /\ pts' = o.pts
                /\ hits' = IF keyVal # NULL THEN Append(hits, keyVal) ELSE hits
                /\ ev' = [type |-> "touchMove", active |-> TRUE, pos |-> pos]
       ELSE /\ UNCHANGED <<swipePath, tracePoints, pool, pts, hits>>
            /\ ev' = [type |-> "touchMove", active |-> FALSE, pos |-> pos]
    /\ UNCHANGED <<touches, touchStart, initialPinchDistance, canvasInk>>
    /\ UNCHANGED <<mounted, genAI, serviceVars>>
    /\ UNCHANGED appVars

\* what handleTraceEnd passes on: the continuation keeps the path and the
\* settings of its closure, the context goes to the remote service only
inFlight(call) == [path |-> call.path, language |-> call.language, learn |-> call.learn]

handleTouchEnd(pos) ==
    /\ mounted
    /\ touches >= 1
    /\ touches' = touches - 1
    /\ initialPinchDistance' = NULL
    /\ IF settings.traceTyping /\ touchStart # NoTouch
       THEN LET dx == pos[1] - touchStart[1]
                dy == pos[2] - touchStart[2]
                fired == dispatch(dx, dy, swipePath)
                calls == IF fired = <<"traceEnd">> /\ swipePath # <<>>
                         THEN <<decodeCall(swipePath)>> ELSE <<>>
            IN  /\ text' = IF fired = <<"swipeRight">> THEN handleSwipeRight(text)
                           ELSE IF fired = <<"swipeLeft">> THEN handleSwipeLeft(text)
                           ELSE text
                /\ Len(text') <= MaxText
                /\ isKeyboardVisible' = IF fired = <<"swipeDown">> THEN FALSE ELSE isKeyboardVisible
                /\ pending' = pending \o [i \in 1..Len(calls) |-> inFlight(calls[i])]
                /\ Len(pending') <= MaxPending
                /\ isLoading' = IF calls # <<>> THEN TRUE ELSE isLoading
                /\ touchStart' = NoTouch
                /\ swipePath' = <<>>
                /\ pool' = recycle(pool, tracePoints)
                /\ tracePoints' = <<>>
                /\ pts' = Collect(pts, pool', tracePoints')
                /\ canvasInk' = FALSE
                /\ hits' = <<>>
                /\ ev' = [type |-> "touchEnd", active |-> TRUE, dx |-> dx, dy |-> dy,
                          path |-> swipePath, fired |-> fired, calls |-> calls]
       ELSE /\ UNCHANGED <<text, isKeyboardVisible, pending, isLoading, touchStart, swipePath,
                           tracePoints, canvasInk, pool, pts, hits>>
            /\ ev' = [type |-> "touchEnd", active |-> FALSE]
    /\ UNCHANGED <<mounted, genAI, serviceVars, settings, isButtonEditMode, isResizeMode>>

\* one animation frame of the trace renderer that draws something
renderTrace ==
    /\ mounted
    /\ settings.traceTyping
    /\ Len(tracePoints) > 1
    /\ ~canvasInk
    /\ canvasInk' = TRUE
    /\ ev' = [type |-> "render"]
    /\ UNCHANGED <<touches, touchStart, swipePath, tracePoints, initialPinchDistance, hits>>
    /\ UNCHANGED <<mounted, genAI, serviceVars, pool, pts>>
    /\ UNCHANGED appVars

-----------------------------------------------------------------------------
(* App.tsx: the other handlers that change what the pipeline reads *)

DefaultSettings ==
    [traceTyping |-> FALSE, incognitoMode |-> FALSE, encryptKeystrokes |-> FALSE,
     language |-> "EN", googleUser |-> FALSE, cloudSyncEnabled |-> FALSE,
     realTimeTranslation |-> FALSE]

\* googleUser is modelled by whether a user is signed in
SettingsSpace ==
    [traceTyping : BOOLEAN, incognitoMode : BOOLEAN, encryptKeystrokes : BOOLEAN,
     language : Languages, googleUser : BOOLEAN, cloudSyncEnabled : BOOLEAN,
     realTimeTranslation : BOOLEAN]

\* setSettings, with the overlay canvas following settings.traceTyping
updateSettings(s) ==
    /\ mounted
    /\ s # settings
    /\ settings' = s
    /\ canvasInk' = IF s.traceTyping = settings.traceTyping THEN canvasInk ELSE FALSE
    /\ ev' = [type |-> "settings"]
    /\ UNCHANGED <<isButtonEditMode, isResizeMode, text, isLoading, isKeyboardVisible, pending>>
    /\ UNCHANGED <<touches, touchStart, swipePath, tracePoints, initialPinchDistance, hits>>
    /\ UNCHANGED <<mounted, genAI, serviceVars, pool, pts>>

toggleLang ==
    updateSettings([settings EXCEPT !.language = IF @ = "EN" THEN "AR" ELSE "EN"])

toggleIncognito ==
    updateSettings([settings EXCEPT !.incognitoMode = ~@])

\* CloudSyncSettings.handleRestore: the stored settings are merged over the
\* current ones ({ ...settings, ...cloudSettings })
handleRestore(cloud) ==
    updateSettings([f \in DOMAIN settings |->
                       IF f \in DOMAIN cloud THEN cloud[f] ELSE settings[f]])

\* the stored settings explored: trace typing switched on or off
CloudBackups == {[traceTyping |-> b] : b \in BOOLEAN}

setIsResizeMode(b) ==
    /\ mounted
    /\ isResizeMode # b
    /\ isResizeMode' = b
    /\ ev' = [type |-> "mode"]
    /\ UNCHANGED <<settings, isButtonEditMode, text, isLoading, isKeyboardVisible, pending>>
    /\ UNCHANGED gestureVars
    /\ UNCHANGED <<mounted, genAI, serviceVars, pool, pts>>

setIsButtonEditMode(b) ==
    /\ mounted
    /\ isButtonEditMode # b
    /\ isButtonEditMode' = b
    /\ ev' = [type |-> "mode"]
    /\ UNCHANGED <<settings, isResizeMode, text, isLoading, isKeyboardVisible, pending>>
    /\ UNCHANGED gestureVars
    /\ UNCHANGED <<mounted, genAI, serviceVars, pool, pts>>

\* <main onClick>: a click on the page shows a hidden keyboard again
showKeyboard ==
    /\ mounted
    /\ ~isKeyboardVisible
    /\ isKeyboardVisible' = TRUE
    /\ ev' = [type |-> "show"]
    /\ UNCHANGED <<settings, isButtonEditMode, isResizeMode, text, isLoading, pending>>
    /\ UNCHANGED gestureVars
    /\ UNCHANGED <<mounted, genAI, serviceVars, pool, pts>>

RemoveThrough(q, i) == SubSeq(q, i + 1, Len(q))

RemoveAt(q, i) == SubSeq(q, 1, i - 1) \o SubSeq(q, i + 1, Len(q))

decodeResolveAlways(i, outcome) ==
    /\ mounted
    /\ i \in 1..Len(pending)
    /\ LET call == pending[i]
           decipheredWord == decipherSwipe(call.path, outcome)
       IN  /\ text' = traceAppend(text, decipheredWord)
           /\ ev' = [type |-> "decodeDone", word |-> decipheredWord, prev |-> text,
                     path |-> call.path, index |-> i,
                     failed |-> remoteCalled(call.path) /\ outcome.kind = "throw",
                     response |-> IF remoteCalled(call.path) /\ outcome.kind = "text"
                                  THEN outcome.text ELSE <<>>,
                     learned |-> IF decipheredWord # <<>> /\ call.learn
                                 THEN <<[word |-> decipheredWord, language |-> call.language]>>
                                 ELSE <<>>]
    /\ pending' = RemoveAt(pending, i)
    /\ isLoading' = FALSE
    /\ UNCHANGED <<settings, isButtonEditMode, isResizeMode, isKeyboardVisible>>
    /\ UNCHANGED gestureVars
    /\ UNCHANGED <<mounted, genAI, serviceVars, pool, pts>>

\* a decipherSwipe promise settles and handleTraceEnd runs to its end
decodeResolve(i, outcome) ==
    /\ mounted
    /\ i \in 1..Len(pending)
    /\ LET call == pending[i]
           decipheredWord == decipherSwipe(call.path, outcome)
       IN  /\ text' = IF decipheredWord # <<>> THEN traceAppend(text, decipheredWord) ELSE text
           /\ ev' = [type |-> "decodeDone", word |-> decipheredWord, prev |-> text,
                     path |-> call.path, index |-> i,
                     failed |-> remoteCalled(call.path) /\ outcome.kind = "throw",
                     response |-> IF remoteCalled(call.path) /\ outcome.kind = "text"
                                  THEN outcome.text ELSE <<>>,
                     learned |-> IF decipheredWord # <<>> /\ call.learn
                                 THEN <<[word |-> decipheredWord, language |-> call.language]>>
                                 ELSE <<>>]
    /\ pending' = RemoveAt(pending, i)
    /\ isLoading' = FALSE
    /\ UNCHANGED <<settings, isButtonEditMode, isResizeMode, isKeyboardVisible>>
    /\ UNCHANGED gestureVars
    /\ UNCHANGED <<mounted, genAI, serviceVars, pool, pts>>

-----------------------------------------------------------------------------
(* Mounting *)

InitApp ==
    /\ settings = DefaultSettings
    /\ isButtonEditMode = FALSE
    /\ isResizeMode = FALSE
    /\ text = <<>>
    /\ isLoading = FALSE
    /\ isKeyboardVisible = TRUE
    /\ pending = <<>>

InitGesture ==
    /\ touches = 0
    /\ touchStart = NoTouch
    /\ swipePath = <<>>
    /\ tracePoints = <<>>
    /\ initialPinchDistance = NULL
    /\ canvasInk = FALSE
    /\ hits = <<>>

InitPool ==
    /\ pool = <<>>
    /\ pts = [p \in Objs |-> NoPoint]

\* the dependency lists of the three effects
TranslationDeps(t, s) == <<t, s.realTimeTranslation>>
PredictorDeps(t, s) == <<t, s.incognitoMode, s.language, s.encryptKeystrokes>>
SyncDeps(s) == <<s.cloudSyncEnabled, s.googleUser>>

\* setPredictions of the predictor effect for an empty buffer: the fixed
\* list of the language
DefaultPredictions(language) == [kind |-> "default", text |-> <<>>, language |-> language]

\* cloudSyncService.syncInterval is null, or holds the timer whose callback
\* captured a settings object; the store is empty, or holds the settings of
\* the last upload
NoTimer == <<>>
NoData == <<>>

\* the effects after the first render: empty buffer, default settings
InitEffects ==
    /\ translationDeps = TranslationDeps(<<>>, DefaultSettings)
    /\ translationTimer = NULL
    /\ rewrites = <<>>
    /\ predictorDeps = PredictorDeps(<<>>, DefaultSettings)
    /\ lookups = <<>>
    /\ predictions = DefaultPredictions(DefaultSettings.language)
    /\ syncDeps = SyncDeps(DefaultSettings)
    /\ syncInterval = NoTimer
    /\ uploads = <<>>
    /\ cloudData = NoData

\* the screens and the hours of the day explored
Screens == {<<390, 844>>, <<844, 390>>, <<1280, 800>>}
Hours == {12, 22}

\* new AutoSizeManager()
InitAutoSize ==
    /\ isEnabled = FALSE
    /\ callback = NULL
    /\ lastSuggestion = NULL
    /\ timeCheckInterval = FALSE
    /\ keyTimestamps = <<>>
    /\ screen = <<390, 844>>
    /\ hour = 12

Init ==
    /\ mounted = TRUE
    /\ genAI \in BOOLEAN
    /\ InitApp
    /\ InitGesture
    /\ InitPool
    /\ InitEffects
    /\ InitAutoSize
    /\ ev = [type |-> "init"]

\* the effect cleanup of VirtualKeyboard: the component state is discarded,
\* the module-level pool is emptied.  The App's effect cleanups run with it:
\* the debounce timer and the sync interval are cleared, the auto-size manager
\* is disabled; continuations of calls in flight only update the discarded
\* component, an upload in flight still reaches the store
unmount ==
    /\ mounted
    /\ mounted' = FALSE
    /\ pool' = cleanup
    /\ pts' = [p \in Objs |-> NoPoint]
    /\ settings' = DefaultSettings
    /\ isButtonEditMode' = FALSE
    /\ isResizeMode' = FALSE
    /\ text' = <<>>
    /\ isLoading' = FALSE
    /\ isKeyboardVisible' = TRUE
    /\ pending' = <<>>
    /\ touches' = 0
    /\ touchStart' = NoTouch
    /\ swipePath' = <<>>
    /\ tracePoints' = <<>>
    /\ initialPinchDistance' = NULL
    /\ canvasInk' = FALSE
    /\ hits' = <<>>
    /\ translationDeps' = TranslationDeps(<<>>, DefaultSettings)
    /\ translationTimer' = NULL
    /\ rewrites' = <<>>
    /\ predictorDeps' = PredictorDeps(<<>>, DefaultSettings)
    /\ lookups' = <<>>
    /\ predictions' = DefaultPredictions(DefaultSettings.language)
    /\ syncDeps' = SyncDeps(DefaultSettings)
    /\ syncInterval' = NoTimer
    /\ isEnabled' = FALSE
    /\ callback' = NULL
    /\ timeCheckInterval' = FALSE
    /\ keyTimestamps' = <<>>
    /\ ev' = [type |-> "unmount"]
    /\ UNCHANGED <<genAI, uploads, cloudData, lastSuggestion, screen, hour>>

mount ==
    /\ ~mounted
    /\ mounted' = TRUE
    /\ ev' = [type |-> "mount"]
    /\ UNCHANGED <<genAI, serviceVars, pool, pts>>
    /\ UNCHANGED appVars
    /\ UNCHANGED gestureVars

-----------------------------------------------------------------------------
(* Drivers of the text handlers and of the pool *)

\* longest text buffer typed when the text handlers are exercised alone
MaxBuf == 5

\* decoded words handed to handleTraceEnd's state updater
Words == {<<"h">>}

\* characters typed with taps; the space bar is a character key with value ' '
TypedChars == {"a", " "}

\* setText from a tap handler or a callback, called directly
typeText(t, kind) ==
    /\ mounted
    /\ Len(t) <= MaxBuf
    /\ text' = t
    /\ ev' = [type |-> kind, prev |-> text, word |-> <<>>]
    /\ UNCHANGED <<settings, isButtonEditMode, isResizeMode, isLoading, isKeyboardVisible, pending>>
    /\ UNCHANGED gestureVars
    /\ UNCHANGED <<mounted, genAI, serviceVars, pool, pts>>

\* autoSizeManager.reportKeyPress() returns at its first line while the
\* manager is disabled, as it is wherever the App's handlers are explored
handleKeyPress(char) == ~isEnabled /\ typeText(Append(text, char), "keyPress")

handleEnter == typeText(Append(text, "\n"), "enter")

handleDelete == text # <<>> /\ typeText(SubSeq(text, 1, Len(text) - 1), "delete")

\* the onSwipeLeft / onSwipeRight callbacks and the append of a decoded word,
\* applied to the buffer as typed
onSwipeLeft == typeText(handleSwipeLeft(text), "swipeLeft")

onSwipeRight == typeText(handleSwipeRight(text), "swipeRight")

onDecipheredWord(word) ==
    /\ mounted
    /\ Len(traceAppend(text, word)) <= MaxBuf
    /\ text' = traceAppend(text, word)
    /\ ev' = [type |-> "traceWord", prev |-> text, word |-> word]
    /\ UNCHANGED <<settings, isButtonEditMode, isResizeMode, isLoading, isKeyboardVisible, pending>>
    /\ UNCHANGED gestureVars
    /\ UNCHANGED <<mounted, genAI, serviceVars, pool, pts>>

TextNext ==
    \/ \E char \in TypedChars : handleKeyPress(char)
    \/ handleEnter
    \/ handleDelete
    \/ onSwipeLeft
    \/ onSwipeRight
    \/ \E word \in Words : onDecipheredWord(word)

TextSpec == Init /\ [][TextNext]_vars

\* coordinates handed to the pool by its client
PoolPos == {<<0, 0>>, <<7, 9>>}

\* a client of pointPool keeping the points it obtained in tracePoints and
\* giving back a leading part of them
poolObtain(pos) ==
    /\ Len(tracePoints) < MaxPath
    /\ LET o == obtain(pool, pts, pos[1], pos[2])
       IN  /\ tracePoints' = Append(tracePoints, o.p)
           /\ pool' = o.pool
           /\ pts' = o.pts
           /\ ev' = [type |-> "obtain", p |-> o.p, pos |-> pos, poolBefore |-> pool,
                     recycled |-> IF ev.type = "recycle" THEN ev.points ELSE <<>>,
                     reuse |-> /\ ev.type = "recycle"
                               /\ ev.afterObtain
                               /\ ev.poolBefore = <<>>
                               /\ Len(ev.points) = 1]
    /\ UNCHANGED <<touches, touchStart, swipePath, initialPinchDistance, canvasInk, hits>>
    /\ UNCHANGED <<mounted, genAI, serviceVars>>
    /\ UNCHANGED appVars

poolRecycle(k) ==
    /\ k \in 1..Len(tracePoints)
    /\ LET points == SubSeq(tracePoints, 1, k)
       IN  /\ pool' = recycle(pool, points)
           /\ tracePoints' = SubSeq(tracePoints, k + 1, Len(tracePoints))
           /\ pts' = Collect(pts, pool', tracePoints')
           /\ ev' = [type |-> "recycle", points |-> points, poolBefore |-> pool,
                     afterObtain |-> ev.type = "obtain" /\ points = <<ev.p>>]
    /\ UNCHANGED <<touches, touchStart, swipePath, initialPinchDistance, canvasInk, hits>>
    /\ UNCHANGED <<mounted, genAI, serviceVars>>
    /\ UNCHANGED appVars

poolCleanup ==
    /\ pool # <<>>
    /\ pool' = cleanup
    /\ pts' = Collect(pts, pool', tracePoints)
    /\ ev' = [type |-> "cleanup"]
    /\ UNCHANGED gestureVars
    /\ UNCHANGED <<mounted, genAI, serviceVars>>
    /\ UNCHANGED appVars

PoolNext ==
    \/ \E pos \in PoolPos : poolObtain(pos)
    \/ \E k \in 1..MaxPath : poolRecycle(k)
    \/ poolCleanup

PoolSpec == Init /\ [][PoolNext]_vars

-----------------------------------------------------------------------------
\* The gesture pipeline with its host: touches of up to MaxTouches fingers,
\* the renderer, trace typing switched on and off, the language switch and
\* the decoder's answers.
Next ==
    \/ \E pos \in StartPos : touches < MaxTouches /\ handleTouchStart(pos)
    \/ \E pos \in MovePos, keyVal \in KeyHits : handleTouchMove(pos, keyVal)
    \/ \E pos \in EndPos : handleTouchEnd(pos)
    \/ renderTrace
    \/ toggleLang
    \/ \E cloud \in CloudBackups : handleRestore(cloud)
    \/ showKeyboard
    \/ \E i \in 1..MaxPending, outcome \in Outcomes :
           decodeResolve(i, outcome) /\ Len(text') <= MaxText
    \/ unmount
    \/ mount

Spec == Init /\ [][Next]_vars

\* fingers on the keyboard at once when the gestures are explored together
\* with the competing modes
MaxFingers == 2

\* where a finger is lifted: on the spot, and one pixel past the threshold to
\* the right, to the left and downwards
LiftPos == {<<60, 60>>, <<111, 60>>, <<9, 60>>, <<60, 111>>}

\* The gesture handlers under everything that can interleave with a touch
\* sequence: a second finger, trace typing switched on and off by a restore,
\* resize mode and button-edit mode entered and left, the renderer, the
\* decoder's answers and unmounting.
GestureNext ==
    \/ \E pos \in StartPos : touches < MaxFingers /\ handleTouchStart(pos)
    \/ \E pos \in MovePos, keyVal \in KeyHits : handleTouchMove(pos, keyVal)
    \/ \E pos \in LiftPos : handleTouchEnd(pos)
    \/ renderTrace
    \/ \E cloud \in CloudBackups : handleRestore(cloud)
    \/ \E b \in BOOLEAN : setIsResizeMode(b)
    \/ \E b \in BOOLEAN : setIsButtonEditMode(b)
    \/ \E i \in 1..MaxPending, outcome \in {Throw} :
           decodeResolve(i, outcome) /\ Len(text') <= MaxText
    \/ unmount
    \/ mount

GestureSpec == Init /\ [][GestureNext]_vars

-----------------------------------------------------------------------------
(* Properties *)

TouchEnded == ev.type = "touchEnd" /\ ev.active
BelowThreshold == Abs(ev.dx) <= SwipeThreshold /\ Abs(ev.dy) <= SwipeThreshold
IsSwipe == Abs(ev.dx) > SwipeThreshold \/ Abs(ev.dy) > SwipeThreshold
Invoked(cb) == \E i \in 1..Len(ev.fired) : ev.fired[i] = cb

\* C1: with trace typing enabled, a touch-end whose displacement has
\* |dx| <= 50 and |dy| <= 50 and whose crossing string has at most two
\* characters invokes no swipe callback and no trace-end / decoder call.
C1_TapIsSilent ==
    (TouchEnded /\ BelowThreshold /\ Len(ev.path) <= 2)
        => (ev.fired = <<>> /\ ev.calls = <<>>)

\* a touch-end exactly at the threshold with two keys crossed did nothing
C1_Witness ==
    /\ TouchEnded
    /\ ev.dx = SwipeThreshold /\ ev.dy = SwipeThreshold
    /\ Len(ev.path) = 2
    /\ ev.fired = <<>>

\* C2: a touch-end of an active trace with dx > 50 and |dx| > |dy| invokes
\* the right-swipe callback exactly once and no other callback, whatever
\* the crossing string holds.
C2_RightSwipeOnly ==
    (TouchEnded /\ ev.dx > SwipeThreshold /\ Abs(ev.dx) > Abs(ev.dy))
        => (ev.fired = <<"swipeRight">> /\ ev.calls = <<>>)

\* a right swipe over three keys fired the right-swipe callback alone
C2_Witness ==
    /\ TouchEnded
    /\ ev.dx > SwipeThreshold /\ Abs(ev.dx) > Abs(ev.dy)
    /\ Len(ev.path) > 2
    /\ ev.fired = <<"swipeRight">>

\* C3: a touch-end of an active trace with max(|dx|, |dy|) > 50 never
\* invokes the trace-end callback or the decoder, even for a crossing
\* string longer than two characters.
C3_SwipeBeatsDecode ==
    (TouchEnded /\ IsSwipe) => (~Invoked("traceEnd") /\ ev.calls = <<>>)

\* a swipe that crossed three keys ended without a decoder call
C3_Witness ==
    /\ TouchEnded
    /\ IsSwipe
    /\ Len(ev.path) > 2
    /\ ev.calls = <<>>
    /\ pending = <<>>

\* C4: for a touch-end classified as a swipe, |dx| > |dy| with dx < 0
\* invokes the left-swipe callback, and |dx| <= |dy| with dy > 0 invokes the
\* down-swipe callback, after which the keyboard is hidden.
C4_LeftAndDown ==
    (TouchEnded /\ IsSwipe)
        => /\ (Abs(ev.dx) > Abs(ev.dy) /\ ev.dx < 0) => Invoked("swipeLeft")
           /\ (Abs(ev.dx) <= Abs(ev.dy) /\ ev.dy > 0)
                  => (Invoked("swipeDown") /\ ~isKeyboardVisible)

\* a diagonal tie downwards hid the keyboard
C4_Witness ==
    /\ TouchEnded
    /\ IsSwipe
    /\ Abs(ev.dx) = Abs(ev.dy) /\ ev.dy > 0
    /\ Invoked("swipeDown")
    /\ ~isKeyboardVisible

\* the key values with every run of equal neighbours collapsed to one
RECURSIVE Collapse(_)
Collapse(ks) ==
    IF Len(ks) <= 1 THEN ks
    ELSE LET front == Collapse(SubSeq(ks, 1, Len(ks) - 1))
         IN  IF ks[Len(ks)] = ks[Len(ks) - 1] THEN front ELSE Append(front, ks[Len(ks)])

C6_TraceIsDecodedAndAppended ==
    /\ (TouchEnded /\ BelowThreshold /\ Len(ev.path) > 2)
           => /\ ev.fired = <<"traceEnd">>
              /\ Len(ev.calls) = 1
              /\ ev.calls[1].path = ev.path
              /\ ev.calls[1].language = settings.language
              /\ pending # <<>>
              /\ pending[Len(pending)].path = ev.path
    /\ (ev.type = "decodeDone" /\ ev.word # <<>>)
           => \E sep \in {<<>>, <<" ">>} : text = ev.prev \o sep \o ev.word \o <<" ">>

\* a decoded word was appended after a text already in the buffer
C6_Witness ==
    /\ ev.type = "decodeDone"
    /\ ev.word = <<"a">>
    /\ ev.prev # <<>>
    /\ text = ev.prev \o <<"a", " ">>

\* the maximal runs of non-white-space characters of s
RECURSIVE WordsOf(_)
WordsOf(s) ==
    IF s = <<>> THEN <<>>
    ELSE LET front == SubSeq(s, 1, Len(s) - 1)
             c == s[Len(s)]
             ws == WordsOf(front)
         IN  IF c \in WhiteSpace THEN ws
             ELSE IF front # <<>> /\ front[Len(front)] \notin WhiteSpace
                  THEN [ws EXCEPT ![Len(ws)] = Append(@, c)]
                  ELSE Append(ws, <<c>>)

\* C7: a decoded word is appended with a separating space before it exactly
\* when the buffer is non-empty and does not end in white space of any kind
\* (space or newline).
C7_SeparatorOnlyAfterText ==
    ev.type = "traceWord"
        => text = ev.prev
                  \o (IF ev.prev # <<>> /\ ev.prev[Len(ev.prev)] \notin WhiteSpace
                      THEN <<" ">> ELSE <<>>)
                  \o ev.word \o <<" ">>

\* C8: swipe-left removes the last white-space-delimited word and leaves the
\* preceding text followed by a trailing space, also when the words are
\* separated by white space other than a space; a single word leaves an
\* empty buffer.
C8_SwipeLeftRemovesLastWord ==
    ev.type = "swipeLeft"
        => LET before == WordsOf(ev.prev)
               after == WordsOf(text)
           IN  /\ after = SubSeq(before, 1, Len(before) - 1)
               /\ after # <<>> => text[Len(text)] = " "
               /\ (Len(before) = 1 /\ ev.prev[1] \notin WhiteSpace) => text = <<>>

\* C9: with the pool otherwise empty, obtain, recycle of that one point and
\* obtain again returns the same object, holding the new coordinates, and
\* leaves the pool empty.
C9_PoolReuse ==
    (ev.type = "obtain" /\ ev.reuse)
        => /\ ev.p = ev.recycled[1]
           /\ pts[ev.p] = ev.pos
           /\ pool = <<>>

\* the second obtain of the scenario got the recycled object with other
\* coordinates than it held
C9_Witness ==
    /\ ev.type = "obtain" /\ ev.reuse
    /\ ev.p = ev.recycled[1]
    /\ ev.pos = <<7, 9>>
    /\ pool = <<>>

\* C10: the pool never holds more than its capacity; a recycle call given
\* more points than the remaining capacity leaves the pool exactly full,
\* keeping the first points that fit and dropping the rest.
C10_PoolBounded ==
    /\ Len(pool) <= maxPoolSize
    /\ (ev.type = "recycle" /\ Len(ev.points) > maxPoolSize - Len(ev.poolBefore))
           => /\ Len(pool) = maxPoolSize
              /\ pool = ev.poolBefore
                        \o SubSeq(ev.points, 1, maxPoolSize - Len(ev.poolBefore))

\* a recycle into a partly filled pool dropped the points that did not fit
C10_Witness ==
    /\ ev.type = "recycle"
    /\ Len(ev.poolBefore) > 0
    /\ Len(ev.poolBefore) < maxPoolSize
    /\ Len(ev.points) > maxPoolSize - Len(ev.poolBefore)
    /\ Len(pool) = maxPoolSize

-----------------------------------------------------------------------------
(* The decode path of App.tsx driven directly *)

\* decoder calls in flight at once when decodes overlap
MaxInFlight == 2
\* longest text buffer explored when decodes overlap
MaxDoc == 6

\* crossing strings handed to onTraceEnd
TracePaths == {<<"h", "e", "h">>, <<"e", "h", "e">>}

\* answers of the remote service that are phrases whose words a newline or
\* a tab separates
PhraseOutcomes ==
    {[kind |-> "text", text |-> t] : t \in {<<"a", "\n", "b">>, <<"a", "\t", "b">>}}

\* stored settings that switch encrypted-keystroke mode on or off
PrivacyBackups == {[encryptKeystrokes |-> b] : b \in BOOLEAN}

\* handleTraceEnd from its call to the await of decipherSwipe
handleTraceEnd(path) ==
    /\ mounted
    /\ path # <<>>
    /\ isLoading' = TRUE
    /\ pending' = Append(pending, inFlight(decodeCall(path)))
    /\ ev' = [type |-> "traceEnd", path |-> path, calls |-> <<decodeCall(path)>>]
    /\ UNCHANGED <<settings, isButtonEditMode, isResizeMode, text, isKeyboardVisible>>
    /\ UNCHANGED gestureVars
    /\ UNCHANGED <<mounted, genAI, serviceVars, pool, pts>>

\* Traces forwarded to the decoder while earlier decodes are in flight, with
\* typing and the privacy switches in between.
DecodeNext ==
    \/ \E path \in TracePaths : Len(pending) < MaxInFlight /\ handleTraceEnd(path)
    \/ \E i \in 1..MaxInFlight, outcome \in Outcomes \cup PhraseOutcomes :
           decodeResolve(i, outcome) /\ Len(text') <= MaxDoc
    \/ \E char \in TypedChars : handleKeyPress(char)
    \/ toggleIncognito
    \/ \E cloud \in PrivacyBackups : handleRestore(cloud)

DecodeSpec == Init /\ [][DecodeNext]_vars

-----------------------------------------------------------------------------
(* App.tsx: asynchronous rewrites of the buffer *)

\* rewrite requests in flight at once
MaxRewrites == 1

\* the shortest buffer the debounced translation sends is longer than this
MinTranslateLength == 3

\* texts the rewriting services answer with
RewriteTexts == {<<>>, <<"b">>}
RewriteOutcomes == {Throw} \cup {[kind |-> "text", text |-> t] : t \in RewriteTexts}

ToneTypes == {"Professional"}

\* a service call that returns the text t
Returns(t) == [kind |-> "text", text |-> t]

\* geminiService.fixGrammar: the text itself without a client, for a blank
\* text and for an empty response; a failed request is rethrown
fixGrammar(t, outcome) ==
    IF ~genAI \/ trim(t) = <<>> THEN Returns(t)
    ELSE IF outcome = Throw THEN Throw
    ELSE IF trim(outcome.text) = <<>> THEN Returns(t) ELSE Returns(trim(outcome.text))

\* geminiService.changeTone
changeTone(t, tone, outcome) ==
    IF ~genAI \/ trim(t) = <<>> THEN Returns(t)
    ELSE IF outcome = Throw THEN Throw
    ELSE IF trim(outcome.text) = <<>> THEN Returns(t) ELSE Returns(trim(outcome.text))

\* geminiService.translateText: the answer of the cache, of the model or of
\* the fallback service; the text itself when it is blank, when every service
\* fails and when the fallback answers nothing
translateText(t, outcome) ==
    IF trim(t) = <<>> THEN Returns(t)
    ELSE IF outcome = Throw THEN Returns(t)
    ELSE IF outcome.text = <<>> THEN Returns(t) ELSE Returns(outcome.text)

\* the real-time translation effect has to run: one of its dependencies
\* changed in the last render
TranslationEffectPending == translationDeps # TranslationDeps(text, settings)

\* the real-time translation effect: the cleanup of its last run clears the
\* debounce timer, the body arms a new one unless translation is off, the
\* buffer is blank or a request is loading
translationEffect ==
    /\ mounted
    /\ TranslationEffectPending
    /\ translationDeps' = TranslationDeps(text, settings)
    /\ translationTimer' = IF ~settings.realTimeTranslation \/ trim(text) = <<>> \/ isLoading
                           THEN NULL ELSE text
    /\ ev' = [type |-> "translationEffect"]
    /\ UNCHANGED rewrites
    /\ UNCHANGED appVars
    /\ UNCHANGED gestureVars
    /\ UNCHANGED <<mounted, genAI, pool, pts, predictVars, syncVars, autoSizeVars>>

\* the debounce timer fires: the callback up to the await of translateText
translationTimerFire ==
    /\ mounted
    /\ translationTimer # NULL
    /\ translationTimer' = NULL
    /\ IF Len(translationTimer) > MinTranslateLength
       THEN /\ isLoading' = TRUE
            /\ rewrites' = Append(rewrites, [kind |-> "translate", text |-> translationTimer])
       ELSE UNCHANGED <<isLoading, rewrites>>
    /\ ev' = [type |-> "translationTimer", sent |-> Len(translationTimer) > MinTranslateLength]
    /\ UNCHANGED translationDeps
    /\ UNCHANGED <<settings, isButtonEditMode, isResizeMode, text, isKeyboardVisible, pending>>
    /\ UNCHANGED gestureVars
    /\ UNCHANGED <<mounted, genAI, pool, pts, predictVars, syncVars, autoSizeVars>>

\* a rewrite handler from its call to the await of the service
requestRewrite(kind) ==
    /\ mounted
    /\ text # <<>>
    /\ isLoading' = TRUE
    /\ rewrites' = Append(rewrites, [kind |-> kind, text |-> text])
    /\ ev' = [type |-> "rewrite", kind |-> kind]
    /\ UNCHANGED <<translationDeps, translationTimer>>
    /\ UNCHANGED <<settings, isButtonEditMode, isResizeMode, text, isKeyboardVisible, pending>>
    /\ UNCHANGED gestureVars
    /\ UNCHANGED <<mounted, genAI, pool, pts, predictVars, syncVars, autoSizeVars>>

handleFixGrammar == requestRewrite("grammar")

handleChangeTone(tone) == requestRewrite(tone)

\* the value the awaited service hands back to the handler
rewriteResult(r, outcome) ==
    IF r.kind = "translate" THEN translateText(r.text, outcome)
    ELSE IF r.kind = "grammar" THEN fixGrammar(r.text, outcome)
    ELSE changeTone(r.text, r.kind, outcome)

\* the rest of a rewrite handler after its await: setText with the result
\* (the translation only when it differs from the text sent), then the
\* finally block
rewriteResolve(i, outcome) ==
    /\ mounted
    /\ i \in 1..Len(rewrites)
    /\ LET r == rewrites[i]
           result == rewriteResult(r, outcome)
           applied == result.kind = "text" /\ (r.kind = "translate" => result.text # r.text)
       IN /\ text' = IF applied THEN result.text ELSE text
          /\ ev' = [type |-> "rewriteDone", kind |-> r.kind, request |-> r.text,
                    prev |-> text, applied |-> applied]
    /\ isLoading' = FALSE
    /\ rewrites' = RemoveAt(rewrites, i)
    /\ UNCHANGED <<translationDeps, translationTimer>>
    /\ UNCHANGED <<settings, isButtonEditMode, isResizeMode, isKeyboardVisible, pending>>
    /\ UNCHANGED gestureVars
    /\ UNCHANGED <<mounted, genAI, pool, pts, predictVars, syncVars, autoSizeVars>>

\* the real-time switch of the translation overlay
onToggleRealTime ==
    updateSettings([settings EXCEPT !.realTimeTranslation = ~@])

\* Typing while rewrites are requested and answered.  An effect whose
\* dependencies changed runs before the next event is handled.
RewriteNext ==
    \/ translationEffect
    \/ \E char \in TypedChars : ~TranslationEffectPending /\ handleKeyPress(char)
    \/ ~TranslationEffectPending /\ onToggleRealTime
    \/ ~TranslationEffectPending /\ translationTimerFire /\ Len(rewrites') <= MaxRewrites
    \/ ~TranslationEffectPending /\ Len(rewrites) < MaxRewrites /\ handleFixGrammar
    \/ \E tone \in ToneTypes :
           ~TranslationEffectPending /\ Len(rewrites) < MaxRewrites /\ handleChangeTone(tone)
    \/ \E i \in 1..MaxRewrites, outcome \in RewriteOutcomes :
           ~TranslationEffectPending /\ rewriteResolve(i, outcome)

RewriteSpec == Init /\ [][RewriteNext]_vars

-----------------------------------------------------------------------------
(* App.tsx: the predictor effect *)

\* prediction lookups in flight at once
MaxLookups == 2
\* longest buffer for which predictions are looked up
MaxQuery == 2

\* the predictor effect has to run: one of its dependencies changed in the
\* last render
PredictorEffectPending == predictorDeps # PredictorDeps(text, settings)

\* the cleanup of the effect's last run: isCancelled = true in its closure
cancelAll(q) == [i \in 1..Len(q) |-> [q[i] EXCEPT !.isCancelled = TRUE]]

\* the list fetchPredictions builds after its await, from the text and the
\* language of its closure
ComputedPredictions(t, language) == [kind |-> "computed", text |-> t, language |-> language]

\* setPredictions([]) of the privacy modes
NoPredictions == [kind |-> "none", text |-> <<>>, language |-> NULL]

\* the predictor effect: the cleanup of its last run, then fetchPredictions
\* up to its return or to the await of getPersonalizedPredictions
predictorEffect ==
    /\ mounted
    /\ PredictorEffectPending
    /\ predictorDeps' = PredictorDeps(text, settings)
    /\ IF settings.incognitoMode \/ settings.encryptKeystrokes
       THEN /\ predictions' = NoPredictions
            /\ lookups' = cancelAll(lookups)
       ELSE IF text = <<>>
       THEN /\ predictions' = DefaultPredictions(settings.language)
            /\ lookups' = cancelAll(lookups)
       ELSE /\ predictions' = predictions
            /\ lookups' = Append(cancelAll(lookups),
                                 [text |-> text, language |-> settings.language,
                                  isCancelled |-> FALSE])
    /\ ev' = [type |-> "predictorEffect"]
    /\ UNCHANGED appVars
    /\ UNCHANGED gestureVars
    /\ UNCHANGED <<mounted, genAI, pool, pts, rewriteVars, syncVars, autoSizeVars>>

\* a lookup that ignores the isCancelled flag of its closure
predictionsResolveStale(i) ==
    /\ mounted
    /\ i \in 1..Len(lookups)
    /\ LET l == lookups[i]
       IN /\ predictions' = ComputedPredictions(l.text, l.language)
          /\ ev' = [type |-> "predictions", text |-> l.text, language |-> l.language,
                    applied |-> TRUE]
    /\ lookups' = RemoveAt(lookups, i)
    /\ UNCHANGED predictorDeps
    /\ UNCHANGED appVars
    /\ UNCHANGED gestureVars
    /\ UNCHANGED <<mounted, genAI, pool, pts, rewriteVars, syncVars, autoSizeVars>>

\* fetchPredictions after its await: nothing when its effect run was cleaned
\* up, setPredictions with the combined list otherwise
predictionsResolve(i) ==
    /\ mounted
    /\ i \in 1..Len(lookups)
    /\ LET l == lookups[i]
       IN /\ predictions' = IF l.isCancelled THEN predictions
                            ELSE ComputedPredictions(l.text, l.language)
          /\ ev' = [type |-> "predictions", text |-> l.text, language |-> l.language,
                    applied |-> ~l.isCancelled]
    /\ lookups' = RemoveAt(lookups, i)
    /\ UNCHANGED predictorDeps
    /\ UNCHANGED appVars
    /\ UNCHANGED gestureVars
    /\ UNCHANGED <<mounted, genAI, pool, pts, rewriteVars, syncVars, autoSizeVars>>

\* Typing, deleting and switching the language and the privacy mode while
\* lookups are in flight; lookups complete in any order.  An effect whose
\* dependencies changed runs before the next event is handled.
PredictIdle == ~PredictorEffectPending /\ Len(lookups) < MaxLookups

PredictNext ==
    \/ predictorEffect
    \/ \E char \in TypedChars : PredictIdle /\ Len(text) < MaxQuery /\ handleKeyPress(char)
    \/ PredictIdle /\ handleDelete
    \/ PredictIdle /\ toggleLang
    \/ PredictIdle /\ toggleIncognito
    \/ \E i \in 1..MaxLookups : ~PredictorEffectPending /\ predictionsResolve(i)

PredictSpec == Init /\ [][PredictNext]_vars

-----------------------------------------------------------------------------
(* cloudSyncService.ts and the cloud sync effect of App.tsx *)

\* uploads in flight at once
MaxUploads == 2

\* the cloud sync effect has to run: one of its dependencies changed in the
\* last render
SyncEffectPending == syncDeps # SyncDeps(settings)

\* cloudSyncService.startAutoSync: the interval timer replaces the one that
\* is running; its callback keeps the settings object it was started with
startAutoSync(s) == <<s>>

\* cloudSyncService.stopAutoSync
stopAutoSync == NoTimer

\* the cloud sync effect: the cleanup of its last run stops the timer, the
\* body starts one when sync is enabled for a signed-in user
cloudSyncEffect ==
    /\ mounted
    /\ SyncEffectPending
    /\ syncDeps' = SyncDeps(settings)
    /\ syncInterval' = IF settings.cloudSyncEnabled /\ settings.googleUser
                       THEN startAutoSync(settings) ELSE stopAutoSync
    /\ ev' = [type |-> "cloudSyncEffect"]
    /\ UNCHANGED <<uploads, cloudData>>
    /\ UNCHANGED appVars
    /\ UNCHANGED gestureVars
    /\ UNCHANGED <<mounted, genAI, pool, pts, rewriteVars, predictVars, autoSizeVars>>

\* the interval callback up to the await of uploadToDrive
syncTick ==
    /\ syncInterval # NoTimer
    /\ LET s == syncInterval[1]
           started == s.cloudSyncEnabled /\ s.googleUser
       IN /\ uploads' = IF started THEN Append(uploads, s) ELSE uploads
          /\ ev' = [type |-> "syncTick", started |-> started, uploaded |-> s]
    /\ UNCHANGED <<syncDeps, syncInterval, cloudData>>
    /\ UNCHANGED appVars
    /\ UNCHANGED gestureVars
    /\ UNCHANGED <<mounted, genAI, pool, pts, rewriteVars, predictVars, autoSizeVars>>

\* uploadToDrive after its delay: the settings it was given are stored
\* without the signed-in user (ok), or the store rejects them.  The
\* completion callback then stamps lastCloudSync, a field not modelled.
uploadResolve(i, ok) ==
    /\ i \in 1..Len(uploads)
    /\ cloudData' = IF ok THEN <<[uploads[i] EXCEPT !.googleUser = FALSE]>> ELSE cloudData
    /\ uploads' = RemoveAt(uploads, i)
    /\ ev' = [type |-> "upload", ok |-> ok, stored |-> uploads[i]]
    /\ UNCHANGED <<syncDeps, syncInterval>>
    /\ UNCHANGED appVars
    /\ UNCHANGED gestureVars
    /\ UNCHANGED <<mounted, genAI, pool, pts, rewriteVars, predictVars, autoSizeVars>>

\* CloudSyncSettings: sign in, sign out and the auto-sync switch shown to a
\* signed-in user
handleSignIn ==
    updateSettings([settings EXCEPT !.googleUser = TRUE, !.cloudSyncEnabled = TRUE])

handleSignOut ==
    updateSettings([settings EXCEPT !.googleUser = FALSE, !.cloudSyncEnabled = FALSE])

toggleCloudSync ==
    /\ settings.googleUser
    /\ updateSettings([settings EXCEPT !.cloudSyncEnabled = ~@])

\* Settings changes while the background sync runs.  An effect whose
\* dependencies changed runs before the next event is handled.
SyncNext ==
    \/ cloudSyncEffect
    \/ ~SyncEffectPending /\ handleSignIn
    \/ ~SyncEffectPending /\ handleSignOut
    \/ ~SyncEffectPending /\ toggleCloudSync
    \/ ~SyncEffectPending /\ toggleLang
    \/ ~SyncEffectPending /\ toggleIncognito
    \/ ~SyncEffectPending /\ Len(uploads) < MaxUploads /\ syncTick
    \/ \E i \in 1..MaxUploads, ok \in BOOLEAN : ~SyncEffectPending /\ uploadResolve(i, ok)

SyncSpec == Init /\ [][SyncNext]_vars

-----------------------------------------------------------------------------
(* services/autoSizeManager.ts *)

\* AutoSizeManager keeps the last 20 key press times; the model keeps the
\* code's comparisons and scales the window
KeyWindow == 5
\* samples needed to judge the typing speed
MinSamples == 5
\* average key intervals (ms) below / above which typing is fast / slow
FastInterval == 120
SlowInterval == 400

\* time since the previous key press (ms), and the callbacks passed to enable
Gaps == {100, 500}
Callbacks == {"cb"}

determineContext(scr) ==
    IF scr[1] >= 1024 \/ scr[2] >= 1024 THEN "tablet_desktop"
    ELSE IF scr[1] > scr[2] /\ scr[2] < 600 THEN "landscape_mobile"
    ELSE "portrait_mobile"

SIZE_RULES(context) ==
    CASE context = "landscape_mobile" -> "small"
      [] context = "tablet_desktop" -> "large"
      [] context = "portrait_mobile" -> "medium"

\* the recommendation evaluateAll computes
recommendation(scr, h) ==
    IF determineContext(scr) = "portrait_mobile" /\ (h >= 20 \/ h < 6) THEN "large"
    ELSE SIZE_RULES(determineContext(scr))

\* the manager's suggestion state while a method runs: lastSuggestion and
\* the calls made to the callback so far
Quiet(last) == [lastSuggestion |-> last, delivered |-> <<>>]

\* AutoSizeManager.suggest
suggest(m, cb, size) ==
    IF cb = NULL THEN m
    ELSE [lastSuggestion |-> size, delivered |-> Append(m.delivered, <<cb, size>>)]

\* AutoSizeManager.evaluateAll
evaluateAll(m, cb, scr, h) ==
    IF m.lastSuggestion # recommendation(scr, h)
    THEN suggest(m, cb, recommendation(scr, h))
    ELSE m

\* AutoSizeManager.checkTimeOfDay and handleResize
checkTimeOfDay(m, enabled, cb, scr, h) ==
    IF ~enabled THEN m ELSE evaluateAll(m, cb, scr, h)

\* the sum of the differences of consecutive key press times
RECURSIVE totalDiff(_)
totalDiff(ks) ==
    IF Len(ks) < 2 THEN 0
    ELSE (ks[Len(ks)] - ks[Len(ks) - 1]) + totalDiff(SubSeq(ks, 1, Len(ks) - 1))

\* AutoSizeManager.analyzeTypingSpeed; avgDiff < c is compared as
\* totalDiff < c * (length - 1)
analyzeTypingSpeed(m, cb, ks, scr) ==
    IF Len(ks) < MinSamples THEN m
    ELSE IF determineContext(scr) # "portrait_mobile" THEN m
    ELSE IF totalDiff(ks) < FastInterval * (Len(ks) - 1) /\ m.lastSuggestion # "small"
         THEN suggest(m, cb, "small")
    ELSE IF totalDiff(ks) > SlowInterval * (Len(ks) - 1) /\ m.lastSuggestion # "large"
         THEN suggest(m, cb, "large")
    ELSE m

\* key press times are kept relative to the oldest one: only their
\* differences are read
rebase(ks) == [i \in 1..Len(ks) |-> ks[i] - ks[1]]

autoSizeEnv == <<mounted, genAI, pool, pts, rewriteVars, predictVars, syncVars>>

\* AutoSizeManager.enable
enable(cb) ==
    /\ IF isEnabled
       THEN /\ UNCHANGED <<isEnabled, callback, lastSuggestion, timeCheckInterval>>
            /\ ev' = [type |-> "enable", switched |-> FALSE, delivered |-> <<>>]
       ELSE LET checked == checkTimeOfDay(Quiet(lastSuggestion), TRUE, cb, screen, hour)
                initial == evaluateAll(checked, cb, screen, hour)
            IN /\ isEnabled' = TRUE
               /\ callback' = cb
               /\ timeCheckInterval' = TRUE
               /\ lastSuggestion' = initial.lastSuggestion
               /\ ev' = [type |-> "enable", switched |-> TRUE,
                         delivered |-> initial.delivered]
    /\ UNCHANGED <<keyTimestamps, screen, hour>>
    /\ UNCHANGED appVars
    /\ UNCHANGED gestureVars
    /\ UNCHANGED autoSizeEnv

\* AutoSizeManager.disable
disable ==
    /\ isEnabled' = FALSE
    /\ callback' = NULL
    /\ timeCheckInterval' = FALSE
    /\ keyTimestamps' = <<>>
    /\ ev' = [type |-> "disable", delivered |-> <<>>]
    /\ UNCHANGED <<lastSuggestion, screen, hour>>
    /\ UNCHANGED appVars
    /\ UNCHANGED gestureVars
    /\ UNCHANGED autoSizeEnv

\* a method of the manager that may suggest: the suggestion state it leaves
suggests(type, m) ==
    /\ lastSuggestion' = m.lastSuggestion
    /\ ev' = [type |-> type, delivered |-> m.delivered]

\* AutoSizeManager.reportKeyPress, gap ms after the previous key press
reportKeyPress(gap) ==
    /\ IF ~isEnabled
       THEN /\ UNCHANGED keyTimestamps
            /\ suggests("reportKeyPress", Quiet(lastSuggestion))
       ELSE LET pushed == IF keyTimestamps = <<>> THEN <<0>>
                          ELSE Append(keyTimestamps, keyTimestamps[Len(keyTimestamps)] + gap)
                kept == IF Len(pushed) > KeyWindow THEN Tail(pushed) ELSE pushed
            IN /\ keyTimestamps' = rebase(kept)
               /\ suggests("reportKeyPress",
                           analyzeTypingSpeed(Quiet(lastSuggestion), callback, kept, screen))
    /\ UNCHANGED <<isEnabled, callback, timeCheckInterval, screen, hour>>
    /\ UNCHANGED appVars
    /\ UNCHANGED gestureVars
    /\ UNCHANGED autoSizeEnv

\* the window is resized; handleResize runs while the listener is registered
resize(scr) ==
    /\ scr # screen
    /\ screen' = scr
    /\ suggests("resize", checkTimeOfDay(Quiet(lastSuggestion), isEnabled, callback, scr, hour))
    /\ UNCHANGED <<isEnabled, callback, timeCheckInterval, keyTimestamps, hour>>
    /\ UNCHANGED appVars
    /\ UNCHANGED gestureVars
    /\ UNCHANGED autoSizeEnv

\* the time check interval fires
timeCheck ==
    /\ timeCheckInterval
    /\ suggests("timeCheck",
                checkTimeOfDay(Quiet(lastSuggestion), isEnabled, callback, screen, hour))
    /\ UNCHANGED <<isEnabled, callback, timeCheckInterval, keyTimestamps, screen, hour>>
    /\ UNCHANGED appVars
    /\ UNCHANGED gestureVars
    /\ UNCHANGED autoSizeEnv

\* the hour of the day changes
clock(h) ==
    /\ h # hour
    /\ hour' = h
    /\ ev' = [type |-> "clock", delivered |-> <<>>]
    /\ UNCHANGED <<isEnabled, callback, lastSuggestion, timeCheckInterval, keyTimestamps, screen>>
    /\ UNCHANGED appVars
    /\ UNCHANGED gestureVars
    /\ UNCHANGED autoSizeEnv

\* The manager's methods called in any order, with resizes, time checks and
\* key presses in between.
AutoSizeNext ==
    \/ \E cb \in Callbacks : enable(cb)
    \/ disable
    \/ \E gap \in Gaps : reportKeyPress(gap)
    \/ \E scr \in Screens : resize(scr)
    \/ timeCheck
    \/ \E h \in Hours : clock(h)

AutoSizeSpec == Init /\ [][AutoSizeNext]_vars

-----------------------------------------------------------------------------
(* Properties of the gesture tracker under GestureSpec *)

NoDuplicates(q) == \A i, j \in 1..Len(q) : q[i] = q[j] => i = j

\* C11: in every state reachable by touch-start, touch-move, touch-end and
\* unmount events no Point is at once in the pool and in the active gesture
\* path, no Point is in the pool twice, and no Point is in the path twice
\* (obtain never hands out a point the live path still references).
C11_ExclusiveOwnership ==
    /\ \A i \in 1..Len(pool), j \in 1..Len(tracePoints) : pool[i] # tracePoints[j]
    /\ NoDuplicates(pool)
    /\ NoDuplicates(tracePoints)

\* a new trace took its first point out of a full pool and left the rest in it
C11_Witness ==
    /\ ev.type = "touchStart" /\ ev.active
    /\ Len(tracePoints) = 1
    /\ Len(pool) = maxPoolSize - 1
    /\ pts[pool[1]] # NoPoint
    /\ pool[1] # tracePoints[1]

\* what the pool holds after it was handed `points`: as many of them as fit
\* under the capacity, taken from the front
Recycled(pl, points) ==
    pl \o SubSeq(points, 1, Min(Len(points), maxPoolSize - Len(pl)))

C13_TouchStartRestarts ==
    [][(ev'.type = "touchStart" /\ ev'.active)
          => LET kept == IF Len(tracePoints) > 0 THEN Recycled(pool, tracePoints) ELSE pool
             IN  /\ touchStart' = ev'.pos
                 /\ swipePath' = <<>>
                 /\ Len(tracePoints') = 1
                 /\ pts'[tracePoints'[1]] = ev'.pos
                 /\ IF kept = <<>> THEN pool' = <<>>
                    ELSE /\ pool' = SubSeq(kept, 1, Len(kept) - 1)
                         /\ tracePoints'[1] = kept[Len(kept)]]_vars

\* a touch-start found leftover points, recycled them and restarted the path
\* with a recycled point now holding the start coordinates
C13_Witness ==
    /\ ev.type = "touchStart" /\ ev.active
    /\ ev.leftover > 1
    /\ touchStart = ev.pos
    /\ swipePath = <<>>
    /\ Len(tracePoints) = 1
    /\ pts[tracePoints[1]] = ev.pos
    /\ pool # <<>>

\* C14: the tracker leaves Idle only through a single-finger touch-start made
\* with trace typing enabled and neither button-edit nor resize mode active;
\* after a touch-start made in any other situation the touch-move adds no
\* key and no point and the touch-end fires no swipe callback and no decoder
\* call.
C14_RejectedStartStaysIdle ==
    [][/\ (touchStart = NoTouch /\ touchStart' # NoTouch)
           => /\ ev'.type = "touchStart" /\ ev'.fingers = 1
              /\ settings.traceTyping /\ ~isButtonEditMode /\ ~isResizeMode
       /\ (/\ ev.type = "touchStart" /\ ev.fingers = 1 /\ ~ev.active
           /\ ev'.type \in {"touchMove", "touchEnd"})
           => /\ ~ev'.active
              /\ swipePath' = swipePath
              /\ tracePoints' = tracePoints
              /\ pending' = pending
              /\ text' = text
              /\ isKeyboardVisible' = isKeyboardVisible]_vars

\* C15: a second finger touching down during an active one-finger trace
\* starts a pinch and abandons the trace: the touch-move or touch-end that
\* follows fires no swipe callback and no decoder call.
C15_SecondFingerAbandonsTrace ==
    [][/\ (ev'.type = "touchStart" /\ ev'.fingers = 2 /\ touchStart # NoTouch)
           => initialPinchDistance' # NULL
       /\ (/\ ev.type = "touchStart" /\ ev.fingers = 2 /\ touchStart # NoTouch
           /\ ev'.type \in {"touchMove", "touchEnd"})
           => /\ pending' = pending
              /\ text' = text
              /\ isKeyboardVisible' = isKeyboardVisible
              /\ (ev'.type = "touchEnd" /\ ev'.active) => ev'.fired = <<>>]_vars

-----------------------------------------------------------------------------
(* Properties of the decode path under DecodeSpec *)

\* the characters of s at the positions in I, in order
RECURSIVE Pick(_, _)
Pick(s, I) ==
    IF I = {} THEN <<>>
    ELSE LET m == CHOOSE i \in I : \A j \in I : i <= j
         IN  <<s[m]>> \o Pick(s, I \ {m})

\* s with every character kept at its first occurrence only
FirstOccurrences(s) == Pick(s, {i \in 1..Len(s) : \A j \in 1..(i - 1) : s[j] # s[i]})

PrivacyActive == settings.incognitoMode \/ settings.encryptKeystrokes

\* C16: when the remote decoder call fails, the decode path still completes:
\* the word is the crossed characters with duplicates removed (first
\* occurrences, in order), it is appended to the text buffer like a decoded
\* word, and the loading state is cleared.
C16_FailureFallsBack ==
    (ev.type = "decodeDone" /\ ev.failed)
        => /\ ev.word = FirstOccurrences(ev.path)
           /\ \E sep \in {<<>>, <<" ">>} : text = ev.prev \o sep \o ev.word \o <<" ">>
           /\ ~isLoading

\* a failed decode of "heh" appended "he " after a typed text
C16_Witness ==
    /\ ev.type = "decodeDone" /\ ev.failed
    /\ ev.path = <<"h", "e", "h">>
    /\ ev.prev = <<"a">>
    /\ text = <<"a", " ", "h", "e", " ">>
    /\ ~isLoading

\* C17: when incognito mode or encrypted-keystroke mode is active as a trace
\* is forwarded, the decoder is called with the crossing string, the empty
\* context and the active language: nothing of the text buffer is sent.
C17_PrivacySendsNoContext ==
    (ev.type = "traceEnd" /\ PrivacyActive)
        => /\ Len(ev.calls) = 1
           /\ ev.calls[1].path = ev.path
           /\ ev.calls[1].context = <<>>
           /\ ev.calls[1].language = settings.language

\* a trace was forwarded in encrypted-keystroke mode over a non-empty buffer
C17_Witness ==
    /\ ev.type = "traceEnd"
    /\ settings.encryptKeystrokes /\ ~settings.incognitoMode
    /\ text # <<>>
    /\ ev.calls[1].context = <<>>

\* C18: the frequency learner is never invoked for a trace-decoded word while
\* incognito or encrypted-keystroke mode is active, whatever the order of
\* settings changes and decode completion; when neither is active it is
\* informed of each appended decoded word with the active language.
C18_LearnerSkippedInPrivacy ==
    ev.type = "decodeDone"
        => IF PrivacyActive THEN ev.learned = <<>>
           ELSE ev.word # <<>>
                   => ev.learned = <<[word |-> ev.word, language |-> settings.language]>>

\* C19: decode requests are never cancelled: forwarding a trace adds a call
\* and removes none, a completion removes its own call only and appends its
\* word to the buffer as it is at completion, keeping all text before it,
\* and typing leaves the calls in flight alone.
C19_DecodesNeverCancelled ==
    [][/\ ev'.type = "traceEnd"
           => /\ Len(pending') = Len(pending) + 1
              /\ SubSeq(pending', 1, Len(pending)) = pending
              /\ text' = text
       /\ ev'.type = "decodeDone"
           => /\ Len(pending') = Len(pending) - 1
              /\ \A j \in 1..Len(pending') :
                     pending'[j] = pending[IF j < ev'.index THEN j ELSE j + 1]
              /\ ev'.path = pending[ev'.index].path
              /\ IF ev'.word = <<>> THEN text' = text
                 ELSE \E sep \in {<<>>, <<" ">>} : text' = text \o sep \o ev'.word \o <<" ">>
       /\ ev'.type \in {"keyPress", "settings"} => pending' = pending]_vars

\* the trace forwarded second was decoded first and appended after a text,
\* with the first trace still in flight
C19_Witness ==
    /\ ev.type = "decodeDone"
    /\ ev.index = 2
    /\ Len(pending) = 1
    /\ pending[1].path # ev.path
    /\ ev.word # <<>>
    /\ ev.prev # <<>>
    /\ text = ev.prev \o <<" ">> \o ev.word \o <<" ">>

\* C20: isLoading is true in every state in which a decoder call has been
\* issued and has not resolved, also when several calls overlap.
C20_LoadingWhileInFlight ==
    pending # <<>> => isLoading

-----------------------------------------------------------------------------
(* Further properties of the pool, the pipeline and the decoder *)

\* C21: obtain always returns a point holding exactly the coordinates it
\* was given, recycled or freshly allocated, and a recycle call made when
\* the pool is at capacity leaves the pool unchanged.
C21_PoolNeverFails ==
    /\ ev.type = "obtain"
           => /\ pts[ev.p] = ev.pos
              /\ tracePoints[Len(tracePoints)] = ev.p
              /\ (ev.poolBefore # <<>> => ev.p = ev.poolBefore[Len(ev.poolBefore)])
              /\ (ev.poolBefore = <<>> => pool = <<>>)
    /\ (ev.type = "recycle" /\ Len(ev.poolBefore) = maxPoolSize) => pool = ev.poolBefore

\* a recycle call found the pool full and left it as it was
C21_Witness ==
    /\ ev.type = "recycle"
    /\ Len(ev.poolBefore) = maxPoolSize
    /\ Len(ev.points) > 0
    /\ pool = ev.poolBefore

\* C22: no touch-start, touch-move or touch-end of a one-finger trace, and
\* no swipe or trace-end callback with its decode continuation, changes any
\* field of the keyboard settings.
C22_PipelineOnlyReadsSettings ==
    [][ev'.type \in {"touchStart", "touchMove", "touchEnd", "decodeDone"}
          => settings' = settings]_vars

\* a trace sampled a key while the settings differ from the defaults in
\* two fields
C22_Witness ==
    /\ ev.type = "touchMove" /\ ev.active
    /\ swipePath # <<>>
    /\ settings.traceTyping
    /\ settings.language = "AR"

\* the first maximal run of non-white-space characters of s
FirstToken(s) == IF WordsOf(s) = <<>> THEN <<>> ELSE WordsOf(s)[1]

\* C23: when the decoder's response is a phrase, only its first
\* white-space-delimited token is returned and appended to the text buffer,
\* whether a space, a tab or a newline separates the tokens.
C23_FirstTokenOnly ==
    (ev.type = "decodeDone" /\ ev.response # <<>>)
        => /\ ev.word = FirstToken(ev.response)
           /\ ev.word # <<>>
                  => \E sep \in {<<>>, <<" ">>} :
                        text = ev.prev \o sep \o FirstToken(ev.response) \o <<" ">>

C25_EmptyDecodeIsNoOp ==
    (ev.type = "decodeDone" /\ ev.word = <<>>)
        => /\ text = ev.prev
           /\ ev.learned = <<>>
           /\ ~isLoading

\* a decode without an AI client completed over a typed text
C25_Witness ==
    /\ ev.type = "decodeDone"
    /\ ev.word = <<>>
    /\ ~genAI
    /\ text = <<"a">>
    /\ ~isLoading

\* C26: a touch-end past the swipe threshold that is vertical-dominant with
\* dy <= 0 (an upward swipe, the tie |dx| = |dy| with dy < 0 included) fires
\* no swipe callback and no decoder call, even with more than two keys
\* crossed, and the gesture state is reset.
C26_UpwardSwipeIsSilent ==
    (TouchEnded /\ IsSwipe /\ Abs(ev.dx) <= Abs(ev.dy) /\ ev.dy <= 0)
        => /\ ev.fired = <<>>
           /\ ev.calls = <<>>
           /\ touchStart = NoTouch
           /\ swipePath = <<>>
           /\ tracePoints = <<>>

\* an upward diagonal tie over three keys fired nothing
C26_Witness ==
    /\ TouchEnded
    /\ ev.dx = SwipeThreshold + 1 /\ ev.dy = -(SwipeThreshold + 1)
    /\ Len(ev.path) > 2
    /\ ev.fired = <<>>
    /\ touchStart = NoTouch

-----------------------------------------------------------------------------
(* Properties of the asynchronous rewrites under RewriteSpec *)

\* q occurs in s as a run of consecutive characters
Occurs(q, s) == \E k \in 0..(Len(s) - Len(q)) : SubSeq(s, k + 1, k + Len(q)) = q

\* C27: text entered while an asynchronous rewrite of the buffer is in flight
\* is never lost: when the result of the rewrite is applied, the characters
\* typed after the request was issued are still present in the buffer.
C27_TypedTextSurvivesRewrite ==
    [][(/\ ev'.type = "rewriteDone"
        /\ ev'.applied
        /\ Len(text) > Len(ev'.request)
        /\ SubSeq(text, 1, Len(ev'.request)) = ev'.request)
       => Occurs(SubSeq(text, Len(ev'.request) + 1, Len(text)), text')]_vars

-----------------------------------------------------------------------------
(* Properties of the predictor effect under PredictSpec *)

\* the predictions the current buffer and settings call for
WantedPredictions ==
    IF settings.incognitoMode \/ settings.encryptKeystrokes THEN NoPredictions
    ELSE IF text = <<>> THEN DefaultPredictions(settings.language)
    ELSE ComputedPredictions(text, settings.language)

\* C28: prediction results are never applied stale: a lookup that completes
\* is applied only when it was made for the current buffer, language and
\* privacy settings, a superseded lookup leaves the display as it is, and
\* the display differs from what the current buffer calls for only while the
\* lookup for the current buffer is still in flight, in whatever order the
\* lookups complete.
C28_PredictionsNeverStale ==
    [][/\ (ev'.type = "predictions" /\ ev'.applied)
          => /\ ev'.text = text'
             /\ ev'.language = settings'.language
             /\ predictions' = WantedPredictions'
       /\ (ev'.type = "predictions" /\ ~ev'.applied) => predictions' = predictions
       /\ (~PredictorEffectPending' /\ predictions' # WantedPredictions')
          => \E i \in 1..Len(lookups') :
                 /\ lookups'[i].text = text'
                 /\ lookups'[i].language = settings'.language]_vars

\* a superseded lookup completes after the lookup that replaced it was
\* applied, and is discarded
C28_Witness ==
    /\ ev.type = "predictions"
    /\ ~ev.applied
    /\ ev.text # text
    /\ predictions = ComputedPredictions(text, settings.language)

-----------------------------------------------------------------------------
(* Properties of the background sync under SyncSpec *)

\* C29: each background upload stores the settings that are current when the
\* upload starts: after any settings changes made while auto-sync stays
\* enabled, the next periodic upload contains the latest settings.
C29_UploadStoresCurrentSettings ==
    [][(ev'.type = "syncTick" /\ ev'.started) => ev'.uploaded = settings]_vars

-----------------------------------------------------------------------------
(* Properties of the auto-size manager under AutoSizeSpec *)

\* C30: every enable(cb) that switches the manager from disabled to enabled
\* delivers the current size recommendation to cb, also when the manager was
\* enabled, disabled and enabled again; while the manager is disabled no
\* callback is invoked.
C30_EnableDeliversRecommendation ==
    [][/\ (ev'.type = "enable" /\ ev'.switched)
          => \E cb \in Callbacks :
                 ev'.delivered = <<(<<cb, recommendation(screen, hour)>>)>>
       /\ (~isEnabled /\ ev'.type \in {"reportKeyPress", "resize", "timeCheck", "disable"})
          => ev'.delivered = <<>>]_vars
====
